---- MODULE Spec2Model ----
(***************************************************************************)
(* A model of the pril UEFI pre-boot application: the firmware handle      *)
(* (src/src/efi.rs), the memory-map collector (src/src/efi/malloc.rs) and  *)
(* the ACPI table walk (src/src/efi/acpi.rs, src/src/efi/acpi/xsdt.rs).    *)
(*                                                                         *)
(* The program is single threaded.  A panic ends in `loop {}`              *)
(* (src/src/panic.rs), modelled by aborted = TRUE, after which no          *)
(* operation runs.  The table walk is recursive in the code; here the call *)
(* stack is explicit and each loop iteration is one step.                  *)
(***************************************************************************)
EXTENDS Integers, Sequences, FiniteSets, TLC

VARIABLES
    EFI_SYSTEM_TABLE,   \* the AtomicPtr global: NULL or a system-table pointer
    memory_pool,        \* EfiMemoryManager.memory_pool: the Some(..) prefix of the array
    aborted,            \* a panic happened
    fwCalls,            \* number of GetMemoryMap firmware calls made so far
    stack,              \* call stack of read_config_table / read_rsdp / read_acpi_table
    trace,              \* ghost: call/return events of the current table walk
    last,               \* ghost: the last top-level operation, its inputs and its effects
    img                 \* the firmware-owned memory the run sees (never written)

vars == <<EFI_SYSTEM_TABLE, memory_pool, aborted, fwCalls, stack, trace, last, img>>

(***************************************************************************)
(* Bounds of the model.                                                    *)
(***************************************************************************)
MaxFwCalls == 2         \* GetMemoryMap calls in one run
MaxTrace == 26          \* call/return events logged in one table walk

(***************************************************************************)
(* Program constants.                                                      *)
(***************************************************************************)
NULL == 0
MEMORY_MAP_BUFFER_SIZE == 8192
MAX_MEMORY_MAP_ENTRIES == 1000
EFI_PAGE_SIZE == 4096
\* size_of::<EfiMemoryDescriptor>() under #[repr(C)]: u32, 4 bytes of padding, 4 x u64
DESCRIPTOR_LAYOUT_SIZE == 40
\* size_of::<DescriptionHeader>(), packed: 4+4+1+1+6+8+4+4+4
DESCRIPTION_HEADER_SIZE == 36
\* the capacity of uefi_print's temporary UTF-16 buffer
PRINT_TMP_LEN == 32

\* usize status codes; the pair is <<high bit, low bits>> of the 64-bit value
EFI_SUCCESS == <<0, 0>>
EFI_INVALID_PARAMETER == <<1, 2>>
EFI_BUFFER_TOO_SMALL == <<1, 5>>
EFI_OUT_OF_RESOURCES == <<1, 9>>
EFI_WARN_BUFFER_TOO_SMALL == <<0, 4>>

\* 0x5453_5953_2049_4249 as its 8 little-endian bytes ("IBI SYST")
EFI_SYSTEM_TABLE_SIGNATURE == <<73, 66, 73, 32, 83, 89, 83, 84>>

\* EfiMemoryType discriminants
ReservedMemoryType == 0
LoaderCode == 1
LoaderData == 2
BootServicesCode == 3
BootServicesData == 4
RuntimeServicesCode == 5
RuntimeServicesData == 6
ConventionalMemory == 7
UnusableMemory == 8
ACPIReclaimMemory == 9
ACPIMemoryNVS == 10
MemoryMappedIO == 11
MemoryMappedIOPortSpace == 12
PalCode == 13
PersistentMemory == 14
MaxMemoryType == 15

(***************************************************************************)
(* Little-endian bytes.                                                    *)
(***************************************************************************)
RECURSIVE LE(_)
\* the unsigned integer a little-endian byte sequence holds (read_unaligned of u32/u64)
LE(s) == IF s = <<>> THEN 0 ELSE Head(s) + 256 * LE(Tail(s))

\* the n little-endian bytes of v (v < 2^31: bytes 5.. are zero)
ToLE(v, n) ==
    [k \in 1..n |->
        CASE k = 1 -> v % 256
          [] k = 2 -> (v \div 256) % 256
          [] k = 3 -> (v \div 65536) % 256
          [] k = 4 -> (v \div 16777216) % 256
          [] OTHER -> 0]

RECURSIVE Flatten(_)
Flatten(ss) == IF ss = <<>> THEN <<>> ELSE Head(ss) \o Flatten(Tail(ss))

(***************************************************************************)
(* The firmware's GetMemoryMap service (the environment).  A response is   *)
(* what one call writes through its out-pointers and returns.  On SUCCESS  *)
(* the caller's buffer receives `bytes`; the buffer was zero-initialised   *)
(* (malloc.rs:70), so every byte after them up to MEMORY_MAP_BUFFER_SIZE   *)
(* is 0.                                                                   *)
(***************************************************************************)
Desc(t, pages) ==
    [mem_type |-> t, phys_start |-> EFI_PAGE_SIZE * (t + 1), virt_start |-> 0,
     number_pages |-> pages, attr_mask |-> 15]

\* One descriptor as the firmware lays it out (the C layout of the UEFI
\* EFI_MEMORY_DESCRIPTOR), cut or padded to descriptor_size bytes.  The padding
\* after the type holds 170 and the bytes after the known 40 hold 238, so a
\* decoder that looked at either would show.
FwDescriptorBytes(d, ds) ==
    LET known == ToLE(d.mem_type, 4) \o <<170, 170, 170, 170>> \o ToLE(d.phys_start, 8)
                 \o ToLE(d.virt_start, 8) \o ToLE(d.number_pages, 8) \o ToLE(d.attr_mask, 8)
    IN  IF ds <= Len(known) THEN SubSeq(known, 1, ds)
        ELSE known \o [k \in 1..(ds - Len(known)) |-> 238]

FwSuccess(descs, ds, slack, key) ==
    LET bytes == Flatten([i \in 1..Len(descs) |-> FwDescriptorBytes(descs[i], ds)])
                 \o [k \in 1..slack |-> 0]
    IN  [status |-> EFI_SUCCESS, memory_map_size |-> Len(bytes), map_key |-> key,
         descriptor_size |-> ds, bytes |-> bytes, descs |-> descs]

\* A failing call: only the status and, for BUFFER_TOO_SMALL, the needed size are written.
FwFailure(st, size) ==
    [status |-> st, memory_map_size |-> size, map_key |-> 0, descriptor_size |-> 0,
     bytes |-> <<>>, descs |-> <<>>]

\* The scenario of the specification: ConventionalMemory of 10 pages, then
\* ReservedMemoryType of 5 pages.
ScenarioDescs == <<Desc(ConventionalMemory, 10), Desc(ReservedMemoryType, 5)>>

\* a runtime region, which is the kind that carries a virtual address
MappedDescs ==
    <<[Desc(RuntimeServicesData, 3) EXCEPT !.virt_start = 12288], Desc(PersistentMemory, 2)>>

DescSeqs ==
    {<<>>, ScenarioDescs, MappedDescs,
     <<Desc(BootServicesCode, 2), Desc(PersistentMemory, 1), Desc(ACPIReclaimMemory, 4)>>}

\* successful answers whose descriptor_size is below the 40 bytes of the
\* known layout: one descriptor cut to 24 bytes, and a map of 96 bytes that
\* reports descriptor_size 0
FwOddStrides ==
    {FwSuccess(<<Desc(ConventionalMemory, 10)>>, 24, 0, 42),
     [FwSuccess(ScenarioDescs, 48, 0, 42) EXCEPT !.descriptor_size = 0]}

FwSuccesses ==
    {FwSuccess(<<Desc(t, 1)>>, 48, 0, 17) : t \in 0..15}
    \cup {FwSuccess(ds[1], ds[2], ds[3], 42) : ds \in DescSeqs \X {40, 48} \X {0, 4}}
    \cup FwOddStrides

FwTooSmall == {FwFailure(EFI_BUFFER_TOO_SMALL, 4096)}

FwFailures ==
    {FwFailure(EFI_INVALID_PARAMETER, MEMORY_MAP_BUFFER_SIZE),
     FwFailure(EFI_OUT_OF_RESOURCES, MEMORY_MAP_BUFFER_SIZE),
     FwFailure(EFI_WARN_BUFFER_TOO_SMALL, MEMORY_MAP_BUFFER_SIZE)}

\* What the firmware would answer to the successive GetMemoryMap calls of one
\* acquisition: a second answer only matters after BUFFER_TOO_SMALL.
FwScripts ==
    {<<r>> : r \in FwSuccesses \cup FwFailures}
    \cup {<<r1, r2>> : r1 \in FwTooSmall,
                       r2 \in {FwSuccess(ScenarioDescs, 48, 0, 42)} \cup FwTooSmall
                              \cup {FwFailure(EFI_OUT_OF_RESOURCES, 4096)}}

\* A successful answer that fills `size` bytes of the buffer with descriptors
\* only ds bytes apart, ds <= 8: every ds-th byte holds 7, the others 0, so
\* each descriptor read is of type ConventionalMemory.
FwDense(size, ds, key) ==
    [status |-> EFI_SUCCESS, memory_map_size |-> size, map_key |-> key,
     descriptor_size |-> ds,
     bytes |-> SubSeq([k \in 1..size |-> IF (k - 1) % ds = 0 THEN 7 ELSE 0], 1, size),
     descs |-> <<>>]

\* answers that hold as many descriptors as the pool, one more, and a full buffer
FwDenseSuccesses ==
    {FwDense(8 * (MAX_MEMORY_MAP_ENTRIES + d), 8, 99) : d \in {0, 1}}
    \cup {FwDense(MEMORY_MAP_BUFFER_SIZE, 8, 99)}

(***************************************************************************)
(* EfiMemoryManager::get_memory_map (malloc.rs:58-123).                    *)
(***************************************************************************)
\* memory_map[o]: the firmware's bytes, then the zeros of the initialiser
ByteAt(buf, o) == IF o < Len(buf) THEN buf[o + 1] ELSE 0

BytesAt(buf, o, n) == [k \in 1..n |-> ByteAt(buf, o + k - 1)]

\* A decoder that takes number_pages before virt_start.
ReadDescriptor_PagesFirst(buf, o) ==
    [mem_type |-> LE(BytesAt(buf, o, 4)),
     phys_start |-> LE(BytesAt(buf, o + 8, 8)),
     virt_start |-> LE(BytesAt(buf, o + 24, 8)),
     number_pages |-> LE(BytesAt(buf, o + 16, 8)),
     attr_mask |-> LE(BytesAt(buf, o + 32, 8))]

\* core::ptr::read_unaligned(.. as *const EfiMemoryDescriptor) at byte offset o:
\* #[repr(C)] puts mem_type at 0, phys_start at 8, virt_start at 16,
\* number_pages at 24 and attr_mask at 32
ReadDescriptor(buf, o) ==
    [mem_type |-> LE(BytesAt(buf, o, 4)),
     phys_start |-> LE(BytesAt(buf, o + 8, 8)),
     virt_start |-> LE(BytesAt(buf, o + 16, 8)),
     number_pages |-> LE(BytesAt(buf, o + 24, 8)),
     attr_mask |-> LE(BytesAt(buf, o + 32, 8))]

Min(a, b) == IF a < b THEN a ELSE b

\* the pool after the iterations before `stop` have stored what they read
Stored(pool, buf, ds, stop) ==
    [i \in 1..(IF Len(pool) > stop THEN Len(pool) ELSE stop) |->
        IF i <= stop THEN ReadDescriptor(buf, (i - 1) * ds) ELSE pool[i]]

\* the result of a decode loop that ran `stop` iterations and read nread descriptors
Decoded(pool, buf, ds, stop, nread, panicked) ==
    [pool |-> Stored(pool, buf, ds, stop), aborted |-> panicked,
     reads |-> [i \in 1..nread |-> (i - 1) * ds]]

\* A decode loop that leaves silently when the pool is full.
DecodeLoop_Truncating(pool, buf, size, ds) ==
    LET n == (size + ds - 1) \div ds
        past == MEMORY_MAP_BUFFER_SIZE \div ds + 1
        stop == Min(n, Min(past, MAX_MEMORY_MAP_ENTRIES))
    IN  Decoded(pool, buf, ds, stop, stop, past < n /\ past <= MAX_MEMORY_MAP_ENTRIES)

\* for (idx, offset) in (0..memory_map_size).step_by(descriptor_size).enumerate():
\* iteration k, counted from 0, has idx = k and offset = k * ds, and there are
\* n of them, one for every offset below memory_map_size.  Iteration k panics
\* at memory_map.get(offset..).unwrap() when its offset lies past the buffer
\* (k >= past), and at self.memory_pool[idx] = Some(entry), after the read,
\* when idx is not an index of the pool; otherwise it stores the descriptor
\* it read at pool position idx.  The loop runs up to its first panicking
\* iteration.
DecodeLoop(pool, buf, size, ds) ==
    LET n == (size + ds - 1) \div ds
        past == MEMORY_MAP_BUFFER_SIZE \div ds + 1
        stop == Min(n, Min(past, MAX_MEMORY_MAP_ENTRIES))
    IN  Decoded(pool, buf, ds, stop,
                IF stop < n /\ stop < past THEN stop + 1 ELSE stop,
                stop < n)

\* Lines after the match that return the number of descriptors, not the key.
DecodeAndReturn_ReturnsCount(pool, resp, calls) ==
    IF resp.descriptor_size = 0
    THEN [pool |-> pool, aborted |-> TRUE, ret |-> 0, fw |-> calls, reads |-> <<>>,
          buf |-> resp.bytes, deref |-> TRUE]
    ELSE LET d == DecodeLoop(pool, resp.bytes, resp.memory_map_size, resp.descriptor_size)
         IN  [pool |-> d.pool, aborted |-> d.aborted,
              ret |-> IF d.aborted THEN 0 ELSE Len(d.reads),
              fw |-> calls, reads |-> d.reads, buf |-> resp.bytes, deref |-> TRUE]

\* the lines after the match: the decode loop and the returned key
DecodeAndReturn(pool, resp, calls) ==
    IF resp.descriptor_size = 0                      \* step_by(0) panics
    THEN [pool |-> pool, aborted |-> TRUE, ret |-> 0, fw |-> calls, reads |-> <<>>,
          buf |-> resp.bytes, deref |-> TRUE]
    ELSE LET d == DecodeLoop(pool, resp.bytes, resp.memory_map_size, resp.descriptor_size)
         IN  [pool |-> d.pool, aborted |-> d.aborted,
              ret |-> IF d.aborted THEN 0 ELSE resp.map_key,
              fw |-> calls, reads |-> d.reads, buf |-> resp.bytes, deref |-> TRUE]

Panic(pool, calls) ==
    [pool |-> pool, aborted |-> TRUE, ret |-> 0, fw |-> calls, reads |-> <<>>, buf |-> <<>>,
     deref |-> TRUE]

\* One firmware call as the ghost log keeps it: the buffer size passed in and
\* what came back.
FwCall(sizeIn, resp) ==
    [size_in |-> sizeIn, status |-> resp.status, size_out |-> resp.memory_map_size,
     map_key |-> resp.map_key, descriptor_size |-> resp.descriptor_size]

\* get_memory_map from the dereference of the handle on (malloc.rs:68-122),
\* with the pool as it is and the firmware's answers to come
GetMemoryMapBody(pool, script) ==
    LET resp == script[1]
        calls == <<FwCall(MEMORY_MAP_BUFFER_SIZE, resp)>>
        status == resp.status
    IN  CASE status = EFI_BUFFER_TOO_SMALL ->
               \* malloc.rs:95: `status` is still BUFFER_TOO_SMALL here, no
               \* second call was made
               IF status # EFI_SUCCESS THEN Panic(pool, calls)
               ELSE DecodeAndReturn(pool, resp, calls)
          [] status = EFI_INVALID_PARAMETER -> Panic(pool, calls)
          [] status = EFI_SUCCESS -> DecodeAndReturn(pool, resp, calls)
          [] OTHER -> Panic(pool, calls)

\* A get_memory_map that lacks the early return of malloc.rs:63-65.
get_memory_map_NoNullCheck(h, pool, script) == GetMemoryMapBody(pool, script)

\* get_memory_map with the handle h.  The result: the pool after, whether it
\* panicked, the returned key, the firmware calls made, the byte offsets
\* decoded, the buffer, and whether the handle was dereferenced.
get_memory_map(h, pool, script) ==
    IF h = NULL
    THEN [pool |-> pool, aborted |-> FALSE, ret |-> 0, fw |-> <<>>, reads |-> <<>>,
          buf |-> <<>>, deref |-> FALSE]
    ELSE GetMemoryMapBody(pool, script)

(***************************************************************************)
(* EfiMemoryManager::free_mem_after_exit_bs (malloc.rs:126-147).           *)
(***************************************************************************)
\* A match arm that lacks PersistentMemory.
IsReusableAfterExit_NoPersistent(t) ==
    t \in {BootServicesCode, BootServicesData, ConventionalMemory, LoaderCode, LoaderData}

\* the arm of the match that adds to the total
IsReusableAfterExit(t) ==
    t \in {BootServicesCode, BootServicesData, ConventionalMemory, PersistentMemory,
           LoaderCode, LoaderData}

RECURSIVE free_mem_StopsAtOtherKind(_)
\* A free_mem_after_exit_bs whose default match arm leaves the loop.
free_mem_StopsAtOtherKind(pool) ==
    IF pool = <<>> THEN 0
    ELSE IF IsReusableAfterExit(pool[1].mem_type)
         THEN pool[1].number_pages * EFI_PAGE_SIZE + free_mem_StopsAtOtherKind(Tail(pool))
         ELSE 0

RECURSIVE free_mem_after_exit_bs(_)
free_mem_after_exit_bs(pool) ==
    IF pool = <<>> THEN 0
    ELSE (IF IsReusableAfterExit(pool[1].mem_type)
          THEN pool[1].number_pages * EFI_PAGE_SIZE ELSE 0)
         + free_mem_after_exit_bs(Tail(pool))

(***************************************************************************)
(* The firmware handle (efi.rs:15-48) and console output (efi.rs:51-100).  *)
(***************************************************************************)
\* The system tables a caller may pass: 1 and 2 carry the right signature,
\* 3 is some other table (its signature is that of the boot services table,
\* 0x5652_4553_544f_4f42).
SystemTablePtrs == {1, 2, 3}

SystemTableSignature(p) ==
    IF p = 3 THEN <<66, 79, 79, 84, 83, 69, 82, 86>> ELSE EFI_SYSTEM_TABLE_SIGNATURE

\* An initialize_system_table that exchanges the pointer before it checks
\* the signature.
initialize_system_table_ExchangeFirst(h, system_table) ==
    LET signature == SystemTableSignature(system_table)
        stored == IF h = NULL THEN system_table ELSE h
    IN  [handle |-> stored,
         aborted |-> h # NULL \/ signature # EFI_SYSTEM_TABLE_SIGNATURE]

\* An initialize_system_table that stores the pointer whatever the global holds.
initialize_system_table_Store(h, system_table) ==
    LET signature == SystemTableSignature(system_table)
    IN  IF signature # EFI_SYSTEM_TABLE_SIGNATURE
        THEN [handle |-> h, aborted |-> TRUE]
        ELSE [handle |-> system_table, aborted |-> FALSE]

\* initialize_system_table(system_table) with the global holding h: the
\* global after, and whether the call panicked
initialize_system_table(h, system_table) ==
    LET signature == SystemTableSignature(system_table)
    IN  IF signature # EFI_SYSTEM_TABLE_SIGNATURE       \* assert!
        THEN [handle |-> h, aborted |-> TRUE]
        ELSE IF h = NULL                                \* compare_exchange(null, ..)
             THEN [handle |-> system_table, aborted |-> FALSE]
             ELSE [handle |-> h, aborted |-> TRUE]      \* Err(_).unwrap()

RECURSIVE PrintLoop(_, _, _)
\* the for loop of uefi_print over the code units still to come: the number of
\* output_string calls made, and tmp_idx at the end
PrintLoop(units, tmp_idx, calls) ==
    IF units = 0 THEN [tmp_idx |-> tmp_idx, calls |-> calls]
    ELSE IF tmp_idx + 1 = PRINT_TMP_LEN - 1
         THEN PrintLoop(units - 1, 0, calls + 1)
         ELSE PrintLoop(units - 1, tmp_idx + 1, calls)

\* uefi_print of a string of `units` UTF-16 code units with the global holding
\* h: the number of output_string firmware calls it makes, and whether it
\* read con_out through the handle
uefi_print(h, units) ==
    IF h = NULL THEN [calls |-> 0, deref |-> FALSE]
    ELSE LET l == PrintLoop(units, 0, 0)
         IN  [calls |-> IF l.tmp_idx # 0 THEN l.calls + 1 ELSE l.calls, deref |-> TRUE]

PrintLengths == {0, 5, 31, 40}

(***************************************************************************)
(* Firmware-owned memory read by the table walk: the configuration-table   *)
(* directory of the system table, root pointers (RSDP) and description     *)
(* tables.  img.rsdps and img.tables map a physical address to what lies   *)
(* there; an address that holds none of them reads as zero bytes.          *)
(***************************************************************************)
\* 0x81883cc7_800022bc_11d3e4f1_8868e871 as eight 16-bit words, high word first
EFI_ACPI_20_TABLE_GUID == <<33160, 15559, 32768, 8892, 4563, 58609, 34920, 59505>>
\* the identifier of some other vendor table
OTHER_TABLE_GUID == <<19905, 16191, 10000, 39446, 4563, 11656, 60317, 11568>>

RSD_PTR_SIGNATURE == <<82, 83, 68, 32, 80, 84, 82, 32>>     \* "RSD PTR "
XSDT_SIGNATURE == <<88, 83, 68, 84>>                        \* b"XSDT"
RSDT_SIGNATURE == <<82, 83, 68, 84>>                        \* b"RSDT"
FACP_SIGNATURE == <<70, 65, 67, 80>>                        \* "FACP"
APIC_SIGNATURE == <<65, 80, 73, 67>>                        \* "APIC"

RECURSIVE from_utf8_ok(_)
\* whether core::str::from_utf8 returns Ok for the bytes (the unwrap()s of
\* read_rsdp and read_acpi_table panic when it does not)
from_utf8_ok(b) ==
    IF b = <<>> THEN TRUE
    ELSE LET x == b[1]
             cont(i) == i <= Len(b) /\ b[i] >= 128 /\ b[i] <= 191
             rest(n) == from_utf8_ok(SubSeq(b, n + 1, Len(b)))
         IN  CASE x < 128 -> rest(1)
               [] x >= 194 /\ x <= 223 -> cont(2) /\ rest(2)
               [] x = 224 -> cont(2) /\ b[2] >= 160 /\ cont(3) /\ rest(3)
               [] (x >= 225 /\ x <= 236) \/ x = 238 \/ x = 239 ->
                      cont(2) /\ cont(3) /\ rest(3)
               [] x = 237 -> cont(2) /\ b[2] <= 159 /\ cont(3) /\ rest(3)
               [] x = 240 -> cont(2) /\ b[2] >= 144 /\ cont(3) /\ cont(4) /\ rest(4)
               [] x >= 241 /\ x <= 243 -> cont(2) /\ cont(3) /\ cont(4) /\ rest(4)
               [] x = 244 -> cont(2) /\ b[2] <= 143 /\ cont(3) /\ cont(4) /\ rest(4)
               [] OTHER -> FALSE

\* core::ptr::read_unaligned(addr as *const RSDP)
RsdpAt(im, addr) ==
    IF addr \in DOMAIN im.rsdps THEN im.rsdps[addr]
    ELSE [signature |-> <<0, 0, 0, 0, 0, 0, 0, 0>>, checksum |-> 0,
          oemid |-> <<0, 0, 0, 0, 0, 0>>, revision |-> 0, rsdt_addr |-> 0, length |-> 0,
          xsdt_addr |-> 0, ext_checksum |-> 0]

\* DescriptionHeader::from_addr(addr): the fields the walk uses
HeaderAt(im, addr) ==
    IF addr \in DOMAIN im.tables
    THEN [signature |-> im.tables[addr].signature, length |-> im.tables[addr].length]
    ELSE [signature |-> <<0, 0, 0, 0>>, length |-> 0]

\* read_unaligned of the idx-th u64 after the header of the table at addr
\* (EntriesIterator::next, elem_addr = entries.addr + 8 * idx)
EntryAt(im, addr, idx) ==
    IF addr \in DOMAIN im.tables /\ idx < Len(im.tables[addr].entries)
    THEN im.tables[addr].entries[idx + 1] ELSE 0

\* header.length as usize - size_of::<DescriptionHeader>() goes below zero
SubtractionOverflows(header) == header.length < DESCRIPTION_HEADER_SIZE

\* 2^64 / 8 entries: a count that wrapped.  TLC's integers end at 2^31 - 1, so
\* 2^30 stands for 2^61; both lie above every count the model follows an
\* iteration for.
USIZE_WRAP_DIV8 == 1073741824

\* A from_header that divides the whole length, header included.
XSDT_from_header_WholeLength(header) ==
    IF header.signature # XSDT_SIGNATURE THEN -1
    ELSE header.length \div 8

\* XSDT::from_header: the number of entries that follow the header, or -1 for
\* None.  When the length is below the header's size the usize subtraction
\* wraps, in a build that does not panic on it, to 2^64 - (36 - length).
XSDT_from_header(header) ==
    IF header.signature # XSDT_SIGNATURE THEN -1
    ELSE IF SubtractionOverflows(header)
         THEN USIZE_WRAP_DIV8 - (DESCRIPTION_HEADER_SIZE - header.length + 7) \div 8
         ELSE (header.length - DESCRIPTION_HEADER_SIZE) \div 8

\* RSDT::from_header (acpi/rsdt.rs): the number of entries of the view, or -1
\* for None.  The divisor is size_of::<u64>() although the entries are u32.
RSDT_from_header(header) ==
    IF header.signature # RSDT_SIGNATURE THEN -1
    ELSE IF SubtractionOverflows(header)
         THEN USIZE_WRAP_DIV8 - (DESCRIPTION_HEADER_SIZE - header.length + 7) \div 8
         ELSE (header.length - DESCRIPTION_HEADER_SIZE) \div 8

(***************************************************************************)
(* The memory images a run may see.                                        *)
(***************************************************************************)
MaxEntries == 2         \* entries of the root XSDT that are enumerated freely

Table(sig, len, entries) == [signature |-> sig, length |-> len, entries |-> entries]

\* an entry table of 64-bit addresses, with `extra` bytes after its last entry
EntryTable(sig, entries, extra) ==
    Table(sig, DESCRIPTION_HEADER_SIZE + 8 * Len(entries) + extra, entries)

TableAddrs == {2000, 2200, 2300, 2400, 2500, 2600, 2700, 2800, 3000}

Tables(root, extra) ==
    [a \in TableAddrs |->
        CASE a = 2000 -> EntryTable(XSDT_SIGNATURE, root, extra)
          [] a = 2200 -> Table(FACP_SIGNATURE, 276, <<>>)
          [] a = 2300 -> Table(APIC_SIGNATURE, 44, <<>>)
          [] a = 2400 -> Table(<<88, 89, 90, 90>>, 40, <<>>)            \* "XYZZ"
          [] a = 2500 -> EntryTable(XSDT_SIGNATURE, <<2200, 2700>>, 0)  \* nested
          [] a = 2600 -> EntryTable(XSDT_SIGNATURE, <<2600>>, 0)        \* lists itself
          [] a = 2700 -> Table(FACP_SIGNATURE, 244, <<>>)
          [] a = 2800 -> Table(<<255, 65, 66, 67>>, 36, <<>>)           \* not UTF-8
          [] OTHER    -> Table(RSDT_SIGNATURE, 44, <<2200, 2700>>)]     \* two u32 entries

Rsdp(sig, oemid, rsdt, xsdt) ==
    [signature |-> sig, checksum |-> 0, oemid |-> oemid, revision |-> 2,
     rsdt_addr |-> rsdt, length |-> 36, xsdt_addr |-> xsdt, ext_checksum |-> 0]

BOCHS_OEMID == <<66, 79, 67, 72, 83, 32>>                   \* "BOCHS "

ConfigEntry(guid, table) == [vendor_guid |-> guid, vendor_table |-> table]

StdConfig ==
    <<ConfigEntry(OTHER_TABLE_GUID, 900), ConfigEntry(EFI_ACPI_20_TABLE_GUID, 1000)>>

Configs ==
    {<<>>, <<ConfigEntry(OTHER_TABLE_GUID, 900)>>, StdConfig,
     <<ConfigEntry(EFI_ACPI_20_TABLE_GUID, 1000), ConfigEntry(EFI_ACPI_20_TABLE_GUID, 1100)>>}

\* fw names the repertoire of the firmware's GetMemoryMap answers;
\* overflow_checks tells whether the build panics on integer overflow (as a
\* debug build does) or wraps (as a release build does)
Image(fw, config, rsdp, root, extra) ==
    [fw |-> fw, config |-> config, madt |-> <<>>, overflow_checks |-> FALSE,
     rsdps |-> [a \in {1000, 1100} |->
                  IF a = 1000 THEN rsdp
                  ELSE Rsdp(RSD_PTR_SIGNATURE, BOCHS_OEMID, 2200, 2500)],
     tables |-> Tables(root, extra)]

GoodRsdp(rsdt) == Rsdp(RSD_PTR_SIGNATURE, BOCHS_OEMID, rsdt, 2000)

SeqsUpTo(S, n) == UNION {[1..k -> S] : k \in 0..n}

RootEntrySeqs ==
    SeqsUpTo({2200, 2300, 2400, 2500, 2600, 2700, 2800}, MaxEntries)
    \cup {<<2300, 2200, 2400>>, <<2500, 2700, 2200>>, <<2200, 2500, 2700>>}

\* images that differ in the tables the walk meets
WalkImages ==
    {Image("none", StdConfig, GoodRsdp(rsdt), root, extra) :
        rsdt \in {2200, 3000}, root \in RootEntrySeqs, extra \in {0, 4}}

\* images whose root pointer has one signature byte changed, or an OEM id
\* that is not UTF-8
SignatureImages ==
    {Image("none", StdConfig,
           Rsdp([RSD_PTR_SIGNATURE EXCEPT ![i] = b], BOCHS_OEMID, 2200, 2500), <<2200>>, 0) :
        i \in 1..8, b \in {0, 88, 255}}
    \cup {Image("none", StdConfig,
                Rsdp(RSD_PTR_SIGNATURE, <<66, 79, 67, 72, 83, 255>>, 2200, 2500), <<2200>>, 0)}

\* images that differ in the configuration-table directory
ConfigImages ==
    {Image("none", c, GoodRsdp(2200), <<2500, 2700>>, 0) : c \in Configs}

\* an image where a nested entry table lists the root table: 2000 lists 2500,
\* and 2500 lists 2200 and 2000
CycleImages ==
    {[Image("none", StdConfig, GoodRsdp(2200), <<2500>>, 0) EXCEPT
         !.tables[2500] = EntryTable(XSDT_SIGNATURE, <<2200, 2000>>, 0)]}

AcpiImages == WalkImages \cup SignatureImages \cup ConfigImages \cup CycleImages

\* the firmware's GetMemoryMap repertoire of an image
Firmware(im) ==
    CASE im.fw = "full" -> FwScripts
      [] im.fw = "few" ->
            {<<FwSuccess(ScenarioDescs, 48, 0, 42)>>,
             <<FwSuccess(<<Desc(LoaderData, 1)>>, 48, 0, 17)>>,
             <<FwFailure(EFI_BUFFER_TOO_SMALL, 4096), FwSuccess(ScenarioDescs, 48, 0, 42)>>,
             <<FwFailure(EFI_INVALID_PARAMETER, MEMORY_MAP_BUFFER_SIZE)>>}
      [] im.fw = "dense" ->
            {<<r>> : r \in FwDenseSuccesses}
            \cup {<<FwSuccess(<<Desc(t, 1)>>, 48, 0, 17)>> :
                     t \in {LoaderData, ACPIMemoryNVS, ConventionalMemory}}
            \cup {<<FwFailure(EFI_INVALID_PARAMETER, MEMORY_MAP_BUFFER_SIZE)>>}
      [] OTHER -> {}

(***************************************************************************)
(* The table walk: read_config_table (efi.rs:200-241), read_rsdp           *)
(* (acpi.rs:42-56) and read_acpi_table (acpi.rs:207-241).  A frame is one  *)
(* activation: idx is entry_idx of read_config_table, the number of walks  *)
(* read_rsdp has started, or EntriesIterator.idx; n is the loop's limit.   *)
(***************************************************************************)
Frame(fn, addr, idx, n) == [fn |-> fn, addr |-> addr, idx |-> idx, n |-> n]

\* ghost: a call made at stack depth `depth`, its return, or its panic
Event(ev, fn, addr, depth, val) ==
    [ev |-> ev, fn |-> fn, addr |-> addr, depth |-> depth, val |-> val]

NoValue == Rsdp(<<>>, <<>>, 0, 0)

Outcome(stk, tr, ab) == [stack |-> stk, trace |-> tr, aborted |-> ab]

\* A read_acpi_table whose default arm returns instead of running todo!().
Call_read_acpi_table_SkipsOthers(im, stk, tr, addr) ==
    LET header == HeaderAt(im, addr)
        depth  == Len(stk) + 1
        called == Append(tr, Event("call", "read_acpi_table", addr, depth, NoValue))
        return == Append(called, Event("ret", "read_acpi_table", addr, depth, NoValue))
        panic  == Append(called, Event("abort", "read_acpi_table", addr, depth, NoValue))
    IN  IF ~from_utf8_ok(header.signature) THEN Outcome(stk, panic, TRUE)
        ELSE CASE header.signature = XSDT_SIGNATURE ->
                    LET n == XSDT_from_header(header)
                    IN  IF im.overflow_checks /\ SubtractionOverflows(header)
                        THEN Outcome(stk, panic, TRUE)
                        ELSE IF n < 0 THEN Outcome(stk, return, FALSE)
                        ELSE Outcome(Append(stk, Frame("read_acpi_table", addr, 0, n)),
                                     called, FALSE)
               [] header.signature = FACP_SIGNATURE -> Outcome(stk, return, FALSE)
               [] OTHER -> Outcome(stk, return, FALSE)

\* A read_acpi_table without the "FACP" arm.
Call_read_acpi_table_NoFacpArm(im, stk, tr, addr) ==
    LET header == HeaderAt(im, addr)
        depth  == Len(stk) + 1
        called == Append(tr, Event("call", "read_acpi_table", addr, depth, NoValue))
        return == Append(called, Event("ret", "read_acpi_table", addr, depth, NoValue))
        panic  == Append(called, Event("abort", "read_acpi_table", addr, depth, NoValue))
    IN  IF ~from_utf8_ok(header.signature) THEN Outcome(stk, panic, TRUE)
        ELSE CASE header.signature = XSDT_SIGNATURE ->
                    LET n == XSDT_from_header(header)
                    IN  IF im.overflow_checks /\ SubtractionOverflows(header)
                        THEN Outcome(stk, panic, TRUE)
                        ELSE IF n < 0 THEN Outcome(stk, return, FALSE)
                        ELSE Outcome(Append(stk, Frame("read_acpi_table", addr, 0, n)),
                                     called, FALSE)
               [] OTHER -> Outcome(stk, panic, TRUE)

\* A read_acpi_table that returns at once from a table it is already walking.
Call_read_acpi_table_VisitedSet(im, stk, tr, addr) ==
    LET header == HeaderAt(im, addr)
        depth  == Len(stk) + 1
        called == Append(tr, Event("call", "read_acpi_table", addr, depth, NoValue))
        return == Append(called, Event("ret", "read_acpi_table", addr, depth, NoValue))
        panic  == Append(called, Event("abort", "read_acpi_table", addr, depth, NoValue))
    IN  IF ~from_utf8_ok(header.signature) THEN Outcome(stk, panic, TRUE)
        ELSE CASE header.signature = XSDT_SIGNATURE ->
                    LET n == XSDT_from_header(header)
                    IN  IF im.overflow_checks /\ SubtractionOverflows(header)
                        THEN Outcome(stk, panic, TRUE)
                        ELSE IF n < 0 \/ \E i \in 1..Len(stk) : stk[i].fn = "read_acpi_table"
                                                               /\ stk[i].addr = addr
                        THEN Outcome(stk, return, FALSE)
                        ELSE Outcome(Append(stk, Frame("read_acpi_table", addr, 0, n)),
                                     called, FALSE)
               [] header.signature = FACP_SIGNATURE -> Outcome(stk, return, FALSE)
               [] OTHER -> Outcome(stk, panic, TRUE)

\* read_acpi_table(addr), called with the activations stk below it
Call_read_acpi_table(im, stk, tr, addr) ==
    LET header == HeaderAt(im, addr)
        depth  == Len(stk) + 1
        called == Append(tr, Event("call", "read_acpi_table", addr, depth, NoValue))
        return == Append(called, Event("ret", "read_acpi_table", addr, depth, NoValue))
        panic  == Append(called, Event("abort", "read_acpi_table", addr, depth, NoValue))
    IN  IF ~from_utf8_ok(header.signature) THEN Outcome(stk, panic, TRUE)
        ELSE CASE header.signature = XSDT_SIGNATURE ->
                    LET n == XSDT_from_header(header)
                    IN  IF im.overflow_checks /\ SubtractionOverflows(header)
                        THEN Outcome(stk, panic, TRUE)
                        ELSE IF n < 0 THEN Outcome(stk, return, FALSE)
                        ELSE Outcome(Append(stk, Frame("read_acpi_table", addr, 0, n)),
                                     called, FALSE)
               [] header.signature = FACP_SIGNATURE -> Outcome(stk, return, FALSE)
               [] OTHER -> Outcome(stk, panic, TRUE)          \* todo!()

\* read_rsdp(addr) up to its first walk
Call_read_rsdp(im, stk, tr, addr) ==
    LET rsdp   == RsdpAt(im, addr)
        depth  == Len(stk) + 1
        called == Append(tr, Event("call", "read_rsdp", addr, depth, NoValue))
        panic  == Append(called, Event("abort", "read_rsdp", addr, depth, NoValue))
    IN  IF ~from_utf8_ok(rsdp.signature) THEN Outcome(stk, panic, TRUE)
        ELSE IF RSD_PTR_SIGNATURE # rsdp.signature THEN Outcome(stk, panic, TRUE)
        ELSE IF ~from_utf8_ok(rsdp.oemid) THEN Outcome(stk, panic, TRUE)
        ELSE Outcome(Append(stk, Frame("read_rsdp", addr, 0, 2)), called, FALSE)

Top == stack[Len(stack)]
Popped == SubSeq(stack, 1, Len(stack) - 1)
Advanced == [stack EXCEPT ![Len(stack)].idx = Top.idx + 1]

Running == ~aborted /\ stack # <<>> /\ Len(trace) < MaxTrace
Idle == ~aborted /\ stack = <<>>

LastOp(op, arg, ret, r, script, out) ==
    [op |-> op, arg |-> arg, preHandle |-> EFI_SYSTEM_TABLE, prePool |-> memory_pool,
     ret |-> ret, fw |-> r.fw, reads |-> r.reads, buf |-> r.buf, deref |-> r.deref,
     script |-> script, out |-> out]

NoFw == [fw |-> <<>>, reads |-> <<>>, buf |-> <<>>, deref |-> FALSE]

(***************************************************************************)
(* Actions.                                                                *)
(***************************************************************************)
Initialize ==
    /\ Idle
    /\ \E p \in SystemTablePtrs :
         LET r == initialize_system_table(EFI_SYSTEM_TABLE, p)
         IN  /\ EFI_SYSTEM_TABLE' = r.handle
             /\ aborted' = r.aborted
             /\ last' = LastOp("initialize_system_table", p, 0, NoFw, <<>>, 0)
    /\ UNCHANGED <<memory_pool, fwCalls, stack, trace, img>>

GetMemoryMap ==
    /\ Idle
    /\ fwCalls < MaxFwCalls
    /\ \E script \in Firmware(img) :
         LET r == get_memory_map(EFI_SYSTEM_TABLE, memory_pool, script)
         IN  /\ memory_pool' = r.pool
             /\ aborted' = r.aborted
             /\ fwCalls' = fwCalls + Len(r.fw)
             /\ last' = LastOp("get_memory_map", 0, r.ret, r, script, 0)
    /\ UNCHANGED <<EFI_SYSTEM_TABLE, stack, trace, img>>

FreeMemAfterExitBs ==
    /\ Idle
    /\ last' = LastOp("free_mem_after_exit_bs", 0, free_mem_after_exit_bs(memory_pool),
                      NoFw, <<>>, 0)
    /\ UNCHANGED <<EFI_SYSTEM_TABLE, memory_pool, aborted, fwCalls, stack, trace, img>>

UefiPrint ==
    /\ Idle
    /\ \E units \in PrintLengths :
         LET r == uefi_print(EFI_SYSTEM_TABLE, units)
         IN  last' = LastOp("uefi_print", units, 0, [NoFw EXCEPT !.deref = r.deref], <<>>,
                            r.calls)
    /\ UNCHANGED <<EFI_SYSTEM_TABLE, memory_pool, aborted, fwCalls, stack, trace, img>>

\* read_config_table(), called with the global holding h, up to its loop: the
\* activation it leaves, none when it returned at once
read_config_table(h, im) ==
    IF h = NULL THEN <<>>
    ELSE <<Frame("read_config_table", h, 0, Len(im.config))>>

ReadConfigTable ==
    /\ Idle
    /\ stack' = read_config_table(EFI_SYSTEM_TABLE, img)
    /\ last' = LastOp("read_config_table", 0, 0, [NoFw EXCEPT !.deref = stack' # <<>>],
                      <<>>, 0)
    /\ trace' = <<>>
    /\ UNCHANGED <<EFI_SYSTEM_TABLE, memory_pool, aborted, fwCalls, img>>

Apply(r) ==
    /\ stack' = r.stack
    /\ trace' = r.trace
    /\ aborted' = r.aborted
    /\ UNCHANGED <<EFI_SYSTEM_TABLE, memory_pool, fwCalls, last, img>>

Return ==
    Apply(Outcome(Popped, Append(trace, Event("ret", Top.fn, Top.addr, Len(stack),
                                               IF Top.fn = "read_rsdp"
                                               THEN RsdpAt(img, Top.addr) ELSE NoValue)),
                  FALSE))

\* one iteration of the while loop of read_config_table, or its return
ConfigTableStep ==
    /\ Running
    /\ Top.fn = "read_config_table"
    /\ IF Top.idx < Top.n
       THEN LET table_entry == img.config[Top.idx + 1]
            IN  IF table_entry.vendor_guid = EFI_ACPI_20_TABLE_GUID
                THEN Apply(Call_read_rsdp(img, Advanced, trace, table_entry.vendor_table))
                ELSE Apply(Outcome(Advanced, trace, FALSE))
       ELSE Return

\* read_rsdp after its checks: the walk of xsdt_addr, the walk of rsdt_addr, the return
RsdpStep ==
    /\ Running
    /\ Top.fn = "read_rsdp"
    /\ LET rsdp == RsdpAt(img, Top.addr)
       IN  CASE Top.idx = 0 -> Apply(Call_read_acpi_table(img, Advanced, trace, rsdp.xsdt_addr))
             [] Top.idx = 1 -> Apply(Call_read_acpi_table(img, Advanced, trace, rsdp.rsdt_addr))
             [] OTHER -> Return

\* one iteration of `for table_addr in xsdt.entries.into_iter()`, or the return
AcpiTableStep ==
    /\ Running
    /\ Top.fn = "read_acpi_table"
    /\ IF Top.idx < Top.n
       THEN Apply(Call_read_acpi_table(img, Advanced, trace,
                                       EntryAt(img, Top.addr, Top.idx)))
       ELSE Return

(***************************************************************************)
(* Specifications.  Spec runs every operation against a firmware with a    *)
(* few memory-map answers; SpecMap runs the memory-map collector against   *)
(* the full repertoire; SpecAcpi runs the table walk over every image.     *)
(***************************************************************************)
InitWith(images) ==
    /\ EFI_SYSTEM_TABLE = NULL
    /\ memory_pool = <<>>
    /\ aborted = FALSE
    /\ fwCalls = 0
    /\ stack = <<>>
    /\ trace = <<>>
    /\ last = [op |-> "efi_main", arg |-> 0, preHandle |-> NULL, prePool |-> <<>>,
               ret |-> 0, fw |-> <<>>, reads |-> <<>>, buf |-> <<>>, deref |-> FALSE,
               script |-> <<>>, out |-> 0]
    /\ img \in images

Init ==
    InitWith({Image("few", c, GoodRsdp(2200), <<2500, 2400>>, 0) : c \in {<<>>, StdConfig}})

Walk == ConfigTableStep \/ RsdpStep \/ AcpiTableStep

Next ==
    \/ Initialize
    \/ GetMemoryMap
    \/ FreeMemAfterExitBs
    \/ UefiPrint
    \/ ReadConfigTable
    \/ Walk

Spec == Init /\ [][Next]_vars

InitMap == InitWith({Image("full", <<>>, GoodRsdp(2200), <<>>, 0)})

NextMap == Initialize \/ GetMemoryMap \/ FreeMemAfterExitBs

SpecMap == InitMap /\ [][NextMap]_vars

InitPool == InitWith({Image("dense", <<>>, GoodRsdp(2200), <<>>, 0)})

NextPool == Initialize \/ GetMemoryMap

SpecPool == InitPool /\ [][NextPool]_vars

InitAcpi == InitWith(AcpiImages)

NextAcpi == Initialize \/ ReadConfigTable \/ Walk

SpecAcpi == InitAcpi /\ [][NextAcpi]_vars

\* the table walk once started runs on: the program has one thread and the
\* walk waits for nothing
SpecAcpiFair == SpecAcpi /\ WF_vars(Walk)

(***************************************************************************)
(* Entry views (acpi.rs:121-196, acpi/xsdt.rs, acpi/rsdt.rs) over the      *)
(* bytes of firmware memory.                                               *)
(***************************************************************************)
\* the bytes that follow the header of the table at a: the entries of an
\* entry table, 8 bytes each in an XSDT and 4 in an RSDT, then the bytes that
\* lie between its last entry and its end; for the table signed "APIC" the
\* bytes img.madt, which go on past the end of the table
TableBody(im, a) ==
    LET t == im.tables[a]
        w == IF t.signature = RSDT_SIGNATURE THEN 4 ELSE 8
        e == Flatten([i \in 1..Len(t.entries) |-> ToLE(t.entries[i], w)])
    IN  IF t.signature = APIC_SIGNATURE THEN im.madt
        ELSE IF t.signature \in {XSDT_SIGNATURE, RSDT_SIGNATURE}
             THEN e \o [k \in 1..(t.length - DESCRIPTION_HEADER_SIZE - Len(e)) |-> 0]
             ELSE <<>>

\* the byte of memory at physical address p; memory that is not the body of
\* a table of the image reads as 0
MemByte(im, p) ==
    LET owners == {a \in DOMAIN im.tables :
                      /\ p >= a + DESCRIPTION_HEADER_SIZE
                      /\ p < a + DESCRIPTION_HEADER_SIZE + Len(TableBody(im, a))}
    IN  IF owners = {} THEN 0
        ELSE LET a == CHOOSE x \in owners : TRUE
             IN  TableBody(im, a)[p - a - DESCRIPTION_HEADER_SIZE + 1]

\* core::ptr::read_unaligned of a little-endian integer of w bytes at p
ReadUnaligned(im, p, w) == LE([k \in 1..w |-> MemByte(im, p + k - 1)])

None == [some |-> FALSE]
Some(v) == [some |-> TRUE, value |-> v]

\* XSDT::from_header(addr, header) and RSDT::from_header(addr, header): the
\* Entries of the table, with the width of the Item its iterator reads
Entries_from_header(addr, header) ==
    CASE header.signature = XSDT_SIGNATURE ->
            Some([addr |-> addr + DESCRIPTION_HEADER_SIZE,
                  nentries |-> XSDT_from_header(header), width |-> 8])
      [] header.signature = RSDT_SIGNATURE ->
            Some([addr |-> addr + DESCRIPTION_HEADER_SIZE,
                  nentries |-> RSDT_from_header(header), width |-> 4])
      [] OTHER -> None

\* Entries::into_iter
into_iter(entries) == [entries |-> entries, idx |-> 0]

\* EntriesIterator::next: the item returned, the iterator after, and the
\* address it read the item at
EntriesIterator_next(im, it) ==
    IF it.idx >= it.entries.nentries THEN [item |-> None, it |-> it, elem_addr |-> 0]
    ELSE LET elem_addr == it.entries.addr + it.entries.width * it.idx
         IN  [item |-> Some(ReadUnaligned(im, elem_addr, it.entries.width)),
              it |-> [it EXCEPT !.idx = @ + 1], elem_addr |-> elem_addr]

RECURSIVE Collect(_, _, _)
\* `for x in iterator`: the items next() returns up to its first None, and the
\* addresses they were read at.  The model follows an iteration for
\* MaxEntries + 2 items, which is more than any table of an image holds.
Collect(im, it, acc) ==
    LET r == EntriesIterator_next(im, it)
    IN  IF r.item = None \/ Len(acc.items) >= MaxEntries + 2 THEN acc
        ELSE Collect(im, r.it, [items |-> Append(acc.items, r.item.value),
                                reads |-> Append(acc.reads, r.elem_addr)])

\* a full iteration over a fresh view of the table at addr: what from_header
\* returned, with the items of the iteration, the addresses read, and whether
\* from_header panicked on the subtraction
IterateRun(im, addr) ==
    LET header == HeaderAt(im, addr)
        view == Entries_from_header(addr, header)
    IN  IF view = None THEN [result |-> None, reads |-> <<>>, panicked |-> FALSE]
        ELSE IF im.overflow_checks /\ SubtractionOverflows(header)
             THEN [result |-> None, reads |-> <<>>, panicked |-> TRUE]
             ELSE LET c == Collect(im, into_iter(view.value), [items |-> <<>>, reads |-> <<>>])
                  IN  [result |-> Some(c.items), reads |-> c.reads, panicked |-> FALSE]

IterateTable(im, addr) == IterateRun(im, addr).result

\* images that differ in the entries of the table signed "RSDT"
RsdtImages ==
    {[Image("none", StdConfig, GoodRsdp(3000), <<2200>>, 0) EXCEPT
         !.tables[3000] = Table(RSDT_SIGNATURE, DESCRIPTION_HEADER_SIZE + 4 * Len(e), e)] :
        e \in SeqsUpTo({2200, 2700}, MaxEntries + 1)}

\* images where an entry table declares a length below the 36 bytes of its
\* header, built with and without overflow checks
ShortTableImages ==
    {[Image("none", StdConfig, GoodRsdp(2200), <<2200>>, 0) EXCEPT
         !.tables[a] = Table(@.signature, 20, <<>>), !.overflow_checks = c] :
        a \in {2500, 3000}, c \in BOOLEAN}

\* two full iterations over the entries of one table, each over a fresh view
IterateEntries ==
    /\ Idle
    /\ \E a \in DOMAIN img.tables :
         /\ img.tables[a].signature \in {XSDT_SIGNATURE, RSDT_SIGNATURE, FACP_SIGNATURE}
         /\ last' = LastOp("entries", a, 0, [NoFw EXCEPT !.reads = IterateRun(img, a).reads],
                           <<>>, <<IterateTable(img, a), IterateTable(img, a)>>)
         /\ aborted' = IterateRun(img, a).panicked
    /\ UNCHANGED <<EFI_SYSTEM_TABLE, memory_pool, fwCalls, stack, trace, img>>

(***************************************************************************)
(* The MADT (acpi/madt.rs) and its interrupt controller structures         *)
(* (acpi/madt/*.rs).                                                       *)
(***************************************************************************)
MaxRecords == 2         \* interrupt controller structures in one MADT

MAX_INT_CTRLS == 200

PROCESSOR_LOCAL_APIC == 0
IN_OUT_APIC == 1
INTERRUPT_SOURCE_OVERRIDE == 2
NON_MASKABLE_INTERRUPT == 3
LOCAL_APIC_NMI == 4

\* core::ptr::read_unaligned(addr as *const IntCtrlHeader)
IntCtrlHeaderAt(im, addr) ==
    [ctrl_type |-> ReadUnaligned(im, addr, 1), length |-> ReadUnaligned(im, addr + 1, 1)]

\* ProcLocalApic::from_addr: #[repr(C, packed)] header, uid, apic id, flags
ProcLocalApic_from_addr(im, addr) ==
    [header |-> IntCtrlHeaderAt(im, addr),
     acpi_processor_uid |-> ReadUnaligned(im, addr + 2, 1),
     apic_id |-> ReadUnaligned(im, addr + 3, 1),
     flags |-> ReadUnaligned(im, addr + 4, 4)]

\* InOutApic::from_addr
InOutApic_from_addr(im, addr) ==
    [header |-> IntCtrlHeaderAt(im, addr),
     io_apic_id |-> ReadUnaligned(im, addr + 2, 1),
     reserved |-> ReadUnaligned(im, addr + 3, 1),
     io_apic_addr |-> ReadUnaligned(im, addr + 4, 4),
     global_system_int_base |-> ReadUnaligned(im, addr + 8, 4)]

\* IntSrcOverride::from_addr
IntSrcOverride_from_addr(im, addr) ==
    [header |-> IntCtrlHeaderAt(im, addr),
     bus |-> ReadUnaligned(im, addr + 2, 1),
     source |-> ReadUnaligned(im, addr + 3, 1),
     global_sys_int |-> ReadUnaligned(im, addr + 4, 4),
     flags |-> ReadUnaligned(im, addr + 8, 2)]

\* LocalApicNmi::from_addr
LocalApicNmi_from_addr(im, addr) ==
    [header |-> IntCtrlHeaderAt(im, addr),
     acpi_proc_uid |-> ReadUnaligned(im, addr + 2, 1),
     flags |-> ReadUnaligned(im, addr + 3, 2),
     local_apic_lintn |-> ReadUnaligned(im, addr + 5, 1)]

\* the bytes an iteration reads from its cursor on: the 2 of the IntCtrlHeader
\* and, in from_type, the whole packed struct of the type (8, 12, 10 or 6)
ReadExtent(ctrl_type) ==
    CASE ctrl_type = PROCESSOR_LOCAL_APIC -> 8
      [] ctrl_type = IN_OUT_APIC -> 12
      [] ctrl_type = INTERRUPT_SOURCE_OVERRIDE -> 10
      [] ctrl_type = LOCAL_APIC_NMI -> 6
      [] OTHER -> 2

\* An IntCtrl::from_type without the arm for LOCAL_APIC_NMI.
IntCtrl_from_type_NoLocalApicNmi(im, addr, ctrl_type) ==
    CASE ctrl_type = PROCESSOR_LOCAL_APIC ->
            [kind |-> "ProcLocalApic", payload |-> ProcLocalApic_from_addr(im, addr)]
      [] ctrl_type = IN_OUT_APIC ->
            [kind |-> "InOutApic", payload |-> InOutApic_from_addr(im, addr)]
      [] ctrl_type = INTERRUPT_SOURCE_OVERRIDE ->
            [kind |-> "IntSrcOverride", payload |-> IntSrcOverride_from_addr(im, addr)]
      [] ctrl_type = NON_MASKABLE_INTERRUPT -> [kind |-> "NmiSrc"]
      [] OTHER -> [kind |-> "Unknown", payload |-> ctrl_type]

\* IntCtrl::from_type(addr, ctrl_type) (acpi/madt/int_ctrl.rs)
IntCtrl_from_type(im, addr, ctrl_type) ==
    CASE ctrl_type = PROCESSOR_LOCAL_APIC ->
            [kind |-> "ProcLocalApic", payload |-> ProcLocalApic_from_addr(im, addr)]
      [] ctrl_type = IN_OUT_APIC ->
            [kind |-> "InOutApic", payload |-> InOutApic_from_addr(im, addr)]
      [] ctrl_type = INTERRUPT_SOURCE_OVERRIDE ->
            [kind |-> "IntSrcOverride", payload |-> IntSrcOverride_from_addr(im, addr)]
      [] ctrl_type = NON_MASKABLE_INTERRUPT -> [kind |-> "NmiSrc"]
      [] ctrl_type = LOCAL_APIC_NMI ->
            [kind |-> "LocalApicNmi", payload |-> LocalApicNmi_from_addr(im, addr)]
      [] OTHER -> [kind |-> "Unknown", payload |-> ctrl_type]

\* the interrupt controller structures the firmware may put in a MADT, as bytes
ProcLocalApicBytes(uid, id, flags) == <<0, 8, uid, id>> \o ToLE(flags, 4)
InOutApicBytes(id, addr, base) == <<1, 12, id, 0>> \o ToLE(addr, 4) \o ToLE(base, 4)
IntSrcOverrideBytes(bus, source, gsi, flags) ==
    <<2, 10, bus, source>> \o ToLE(gsi, 4) \o ToLE(flags, 2)
NmiSrcBytes(flags, gsi) == <<3, 8>> \o ToLE(flags, 2) \o ToLE(gsi, 4)
LocalApicNmiBytes(uid, flags, lint) == <<4, 6, uid>> \o ToLE(flags, 2) \o <<lint>>
OtherCtrlBytes(t, len) == <<t, len>> \o [k \in 1..(len - 2) |-> 10 + k]

\* a structure whose length byte is 0
ZeroLengthBytes == <<5, 0>>

IntCtrlBytes ==
    {ProcLocalApicBytes(1, 2, 1), InOutApicBytes(3, 1048576, 24),
     IntSrcOverrideBytes(0, 9, 2, 13), NmiSrcBytes(5, 11), LocalApicNmiBytes(255, 5, 1),
     OtherCtrlBytes(9, 8), OtherCtrlBytes(0, 12), OtherCtrlBytes(32, 2), ZeroLengthBytes}

\* the bytes that lie in memory after the last structure of a MADT
MadtTail == <<9, 4, 1, 1>>

\* images that differ in the structures of the table signed "APIC" and in how
\* its length relates to them: `delta` bytes more than the structures take
MadtImages ==
    {[Image("none", StdConfig, GoodRsdp(2200), <<2300>>, 0) EXCEPT
         !.tables[2300] = Table(APIC_SIGNATURE, 44 + Len(Flatten(recs)) + delta, <<>>),
         !.madt = ToLE(1044480, 4) \o ToLE(1, 4) \o Flatten(recs) \o MadtTail] :
        recs \in SeqsUpTo(IntCtrlBytes, MaxRecords), delta \in {0, 3}}
    \cup
    {[Image("none", StdConfig, GoodRsdp(2200), <<2300>>, 0) EXCEPT
         !.tables[2300] = Table(APIC_SIGNATURE, 44 + Len(Flatten(recs)) - 3, <<>>),
         !.madt = ToLE(1044480, 4) \o ToLE(1, 4) \o Flatten(recs) \o MadtTail] :
        recs \in {r \in SeqsUpTo(IntCtrlBytes, MaxRecords) : Len(Flatten(r)) > 3}}

\* MADT { header, lic_addr, flags, int_ctrls: [None; MAX_INT_CTRLS] }; cursor is
\* a ghost, the value of next_int_ctrl_addr when the loop ended
MADT(header, lic_addr, flags, cursor) ==
    [header |-> header, lic_addr |-> lic_addr, flags |-> flags,
     int_ctrls |-> SubSeq([i \in 1..MAX_INT_CTRLS |-> None], 1, MAX_INT_CTRLS),
     cursor |-> cursor]

\* MADT::from_header(addr, header) up to its loop: the frame holds
\* next_int_ctrl_addr in idx and madt_end_addr in n
CallMadt ==
    /\ Idle
    /\ \E addr \in DOMAIN img.tables :
         /\ img.tables[addr].signature = APIC_SIGNATURE
         /\ LET header == HeaderAt(img, addr)
                after_header_addr == addr + DESCRIPTION_HEADER_SIZE
                madt_end_addr == addr + header.length
                next_int_ctrl_addr == after_header_addr + 2 * 4
            IN  /\ stack' = <<Frame("MADT::from_header", addr, next_int_ctrl_addr,
                                    madt_end_addr)>>
                /\ trace' = <<Event("call", "MADT::from_header", addr, 1,
                                    [cursor |-> next_int_ctrl_addr])>>
                /\ last' = LastOp("MADT::from_header", addr, 0, NoFw, <<>>, 0)
    /\ UNCHANGED <<EFI_SYSTEM_TABLE, memory_pool, aborted, fwCalls, img>>

\* one iteration of `while next_int_ctrl_addr < madt_end_addr`, or the return
\* of Some(madt)
MadtStep ==
    /\ Running
    /\ Top.fn = "MADT::from_header"
    /\ IF Top.idx < Top.n
       THEN LET int_ctrl_meta == IntCtrlHeaderAt(img, Top.idx)
                int_ctrl == IntCtrl_from_type(img, Top.idx, int_ctrl_meta.ctrl_type)
                rec == Event("rec", Top.fn, Top.addr, Len(stack),
                             [cursor |-> Top.idx, int_ctrl |-> int_ctrl,
                              length |-> int_ctrl_meta.length,
                              extent |-> ReadExtent(int_ctrl_meta.ctrl_type)])
                \* an iteration that repeats the one before it, the cursor not
                \* having moved, is kept once in the log
            IN  Apply(Outcome([stack EXCEPT ![Len(stack)].idx = Top.idx + int_ctrl_meta.length],
                              IF trace[Len(trace)] = rec THEN trace ELSE Append(trace, rec),
                              FALSE))
       ELSE Apply(Outcome(Popped,
                          Append(trace, Event("ret", Top.fn, Top.addr, Len(stack),
                                              MADT(HeaderAt(img, Top.addr),
                                                   ReadUnaligned(img, Top.addr + 36, 4),
                                                   ReadUnaligned(img, Top.addr + 40, 4),
                                                   Top.idx))),
                          FALSE))

\* SpecTables runs the entry views and the MADT parser over every image
TableImages == RsdtImages \cup MadtImages \cup ConfigImages \cup ShortTableImages

InitTables == InitWith(TableImages)

NextTables == IterateEntries \/ CallMadt \/ MadtStep

SpecTables == InitTables /\ [][NextTables]_vars

\* the parser once called runs on: the loop waits for nothing
SpecTablesFair == SpecTables /\ WF_vars(MadtStep)

(***************************************************************************)
(* Properties of the memory-map collector, checked under SpecMap.          *)
(***************************************************************************)
AcquireDone == last.op = "get_memory_map" /\ last.fw # <<>>

\* the descriptor the decoder is expected to produce for what the firmware
\* described: the typed fields, nothing of the padding or the trailing bytes
Described(d) ==
    [mem_type |-> d.mem_type, phys_start |-> d.phys_start, virt_start |-> d.virt_start,
     number_pages |-> d.number_pages, attr_mask |-> d.attr_mask]

\* C1: when the first firmware call of an acquisition returns BUFFER_TOO_SMALL,
\* the acquisition calls the firmware exactly once more, passing the size the
\* first call wrote; when that second call returns SUCCESS the acquisition
\* completes and decodes the second call's buffer.  For BUFFER_TOO_SMALL(4096)
\* followed by SUCCESS with ConventionalMemory of 10 pages and
\* ReservedMemoryType of 5 pages, the reclaimable bytes are 40960.
C1_RetryOnceWithWrittenSize ==
    (AcquireDone /\ last.fw[1].status = EFI_BUFFER_TOO_SMALL) =>
        /\ Len(last.fw) = 2
        /\ last.fw[2].size_in = last.fw[1].size_out
        /\ (last.fw[2].status = EFI_SUCCESS =>
               /\ ~aborted
               /\ last.ret = last.script[2].map_key
               /\ \A i \in 1..Len(last.script[2].descs) :
                      memory_pool[i] = Described(last.script[2].descs[i])
               /\ (last.script[2].descs = ScenarioDescs =>
                      free_mem_after_exit_bs(memory_pool) = 40960))

\* C2: an acquisition aborts exactly when the first call returned
\* INVALID_PARAMETER, or a status other than SUCCESS and BUFFER_TOO_SMALL, or
\* the retry after BUFFER_TOO_SMALL returned anything but SUCCESS; an aborted
\* acquisition leaves the snapshot as it was; no acquisition makes more than
\* two firmware calls.
C2_AbortExactlyOnListedStatuses ==
    AcquireDone =>
        LET first == last.fw[1].status
            listed == \/ first = EFI_INVALID_PARAMETER
                      \/ first \notin {EFI_SUCCESS, EFI_BUFFER_TOO_SMALL}
                      \/ /\ first = EFI_BUFFER_TOO_SMALL
                         /\ Len(last.fw) >= 2
                         /\ last.fw[2].status # EFI_SUCCESS
        IN  /\ aborted <=> listed
            /\ aborted => memory_pool = last.prePool
            /\ Len(last.fw) <= 2

\* C3: on SUCCESS with a descriptor_size of at least the known layout, the
\* acquisition decodes exactly memory_map_size / descriptor_size (integer
\* division) descriptors, descriptor i from byte offset i * descriptor_size
\* into pool position i, and the bytes of a descriptor beyond the known
\* layout do not show in it.
C3_DecodesSizeOverStride ==
    (AcquireDone /\ last.fw[1].status = EFI_SUCCESS
       /\ last.fw[1].descriptor_size >= DESCRIPTOR_LAYOUT_SIZE) =>
        LET ds == last.fw[1].descriptor_size
            n  == last.fw[1].size_out \div ds
        IN  /\ Len(last.reads) = n
            /\ \A i \in 0..(n - 1) :
                  /\ last.reads[i + 1] = i * ds
                  /\ memory_pool[i + 1] = Described(last.script[1].descs[i + 1])

\* C4: after every successful acquisition the snapshot holds exactly the
\* descriptors of that acquisition: as many entries as were decoded, each the
\* descriptor read at its offset, nothing of an earlier acquisition.
C4_SnapshotIsLatestAcquisition ==
    (AcquireDone /\ last.fw[1].status = EFI_SUCCESS /\ ~aborted) =>
        memory_pool = [i \in 1..Len(last.reads) |-> ReadDescriptor(last.buf, last.reads[i])]

ReclaimableKinds ==
    {BootServicesCode, BootServicesData, ConventionalMemory, PersistentMemory,
     LoaderCode, LoaderData}

RECURSIVE PagesOfKind(_, _)
\* the pages of the descriptors of kind k in a snapshot
PagesOfKind(pool, k) ==
    IF pool = <<>> THEN 0
    ELSE PagesOfKind(SubSeq(pool, 1, Len(pool) - 1), k)
         + (IF pool[Len(pool)].mem_type = k THEN pool[Len(pool)].number_pages ELSE 0)

RECURSIVE SumOver(_, _)
SumOver(S, f) ==
    IF S = {} THEN 0
    ELSE LET x == CHOOSE y \in S : TRUE IN f[x] + SumOver(S \ {x}, f)

\* C5: free_mem_after_exit_bs returns the sum, over the snapshot's descriptors
\* of kind BootServicesCode, BootServicesData, ConventionalMemory,
\* PersistentMemory, LoaderCode or LoaderData, of page count times 4096; a
\* descriptor of any other kind adds nothing; the call leaves the snapshot
\* unchanged.
C5_ReclaimableBytes ==
    last.op = "free_mem_after_exit_bs" =>
        /\ last.ret = 4096 * SumOver(ReclaimableKinds,
                                     [k \in ReclaimableKinds |-> PagesOfKind(last.prePool, k)])
        /\ memory_pool = last.prePool

\* a reclaimable total taken over a snapshot that mixes PersistentMemory with
\* a kind that does not count
C5_Witness ==
    /\ last.op = "free_mem_after_exit_bs"
    /\ last.ret > 0
    /\ \E i, j \in 1..Len(memory_pool) :
          /\ memory_pool[i].mem_type = PersistentMemory
          /\ memory_pool[j].mem_type \notin ReclaimableKinds
          /\ memory_pool[j].number_pages > 0

(***************************************************************************)
(* Properties of the firmware handle, checked under Spec.                  *)
(***************************************************************************)
ValidTable(p) == SystemTableSignature(p) = EFI_SYSTEM_TABLE_SIGNATURE

\* C6: an initialize_system_table called while a pointer is installed, with
\* the same pointer or with a different valid one, leaves the installed
\* pointer as it was and does not abort.
C6_SecondInitializeIsNoOp ==
    (last.op = "initialize_system_table" /\ last.preHandle # NULL /\ ValidTable(last.arg)) =>
        /\ ~aborted
        /\ EFI_SYSTEM_TABLE = last.preHandle

\* C7: initialize_system_table installs a pointer only when the signature of
\* the table it points at is 0x5453595320494249: on a mismatch the call aborts
\* and the handle is as it was, empty if it was empty; on a match with the
\* handle empty the call returns with the handle equal to the pointer passed.
C7_InstallOnlyOnSignature ==
    /\ (EFI_SYSTEM_TABLE # NULL => ValidTable(EFI_SYSTEM_TABLE))
    /\ last.op = "initialize_system_table" =>
          /\ ~ValidTable(last.arg) => (aborted /\ EFI_SYSTEM_TABLE = last.preHandle)
          /\ (ValidTable(last.arg) /\ last.preHandle = NULL) =>
                 (~aborted /\ EFI_SYSTEM_TABLE = last.arg)

\* a table with another signature was passed while the handle was empty
C7_Witness ==
    /\ last.op = "initialize_system_table"
    /\ ~ValidTable(last.arg)
    /\ last.preHandle = NULL
    /\ aborted
    /\ EFI_SYSTEM_TABLE = NULL

\* C8: while the handle is empty, get_memory_map returns 0, and it,
\* read_config_table and uefi_print return without a firmware call, without
\* reading through the handle, without walking a table and with the snapshot
\* as it was.
C8_EmptyHandleDoesNothing ==
    (last.preHandle = NULL /\ last.op \in {"get_memory_map", "read_config_table", "uefi_print"}) =>
        /\ ~aborted
        /\ last.fw = <<>>
        /\ last.out = 0
        /\ ~last.deref
        /\ last.reads = <<>>
        /\ stack = <<>>
        /\ trace = <<>>
        /\ memory_pool = last.prePool
        /\ fwCalls = 0
        /\ last.op = "get_memory_map" => last.ret = 0

\* get_memory_map was called before any table was installed, on a firmware
\* that had a map to give
C8_Witness ==
    /\ last.op = "get_memory_map"
    /\ last.preHandle = NULL
    /\ last.script # <<>>
    /\ last.script[1].status = EFI_SUCCESS
    /\ last.script[1].descs # <<>>

(***************************************************************************)
(* Properties of the table walk, checked under SpecAcpi.                   *)
(***************************************************************************)
IsCall(x, fn) == trace[x].ev = "call" /\ trace[x].fn = fn

\* the event that ends the activation begun at x
Ends(z, x) ==
    /\ z > x
    /\ trace[z].ev \in {"ret", "abort"}
    /\ trace[z].fn = trace[x].fn
    /\ trace[z].addr = trace[x].addr
    /\ trace[z].depth = trace[x].depth

\* the position where the activation begun at x ends, past the trace when it
\* has not ended
EndOf(x) ==
    IF \E z \in 1..Len(trace) : Ends(z, x)
    THEN CHOOSE z \in 1..Len(trace) : Ends(z, x) /\ \A w \in 1..(z - 1) : ~Ends(w, x)
    ELSE Len(trace) + 1

Returned(x) == EndOf(x) <= Len(trace) /\ trace[EndOf(x)].ev = "ret"

\* the calls made directly by the activation begun at x, in the order made
Children(x) ==
    SelectSeq(SubSeq(trace, x + 1, EndOf(x) - 1),
              LAMBDA e : e.ev = "call" /\ e.depth = trace[x].depth + 1)

\* C9: read_rsdp succeeds, returning the decoded fields, whenever the 8
\* signature bytes at the address are "RSD PTR ", and aborts whenever any of
\* them differs; on a mismatch no table is walked.
C9_RootPointerValidation ==
    \A x \in 1..Len(trace) :
        IsCall(x, "read_rsdp") =>
            LET rsdp == img.rsdps[trace[x].addr]
            IN  IF rsdp.signature = RSD_PTR_SIGNATURE
                THEN /\ aborted => Returned(x)
                     /\ Returned(x) => trace[EndOf(x)].val = rsdp
                ELSE /\ aborted
                     /\ EndOf(x) = x + 1
                     /\ trace[x + 1].ev = "abort"
                     /\ Len(trace) = x + 1

AbortedAt(x) == EndOf(x) <= Len(trace) /\ trace[EndOf(x)].ev = "abort"

\* C11: for a table signed "RSDT" the pointer width is 4: the view built from
\* its header counts (length - 36) / 4 entries, and read_acpi_table on such a
\* table does not abort but walks each of these 4-byte addresses, in order.
C11_RsdtWalksFourByteEntries ==
    \A x \in 1..Len(trace) :
        (IsCall(x, "read_acpi_table") /\ trace[x].addr \in DOMAIN img.tables
           /\ img.tables[trace[x].addr].signature = RSDT_SIGNATURE) =>
            LET table == img.tables[trace[x].addr]
                k == (table.length - 36) \div 4
                c == Children(x)
            IN  /\ RSDT_from_header(HeaderAt(img, trace[x].addr)) = k
                /\ ~AbortedAt(x)
                /\ Len(c) <= k
                /\ \A i \in 1..Len(c) :
                      c[i].fn = "read_acpi_table" /\ c[i].addr = table.entries[i]
                /\ Returned(x) => Len(c) = k

SignatureAt(x) == HeaderAt(img, trace[x].addr).signature

\* C13: read_acpi_table on a table signed "APIC" hands the same address and
\* header to MADT::from_header and then returns; it does not abort.
C13_ApicDelegatesToMadt ==
    \A x \in 1..Len(trace) :
        (IsCall(x, "read_acpi_table") /\ SignatureAt(x) = APIC_SIGNATURE) =>
            /\ ~AbortedAt(x)
            /\ x < Len(trace) =>
                  /\ trace[x + 1].ev = "call"
                  /\ trace[x + 1].fn = "MADT::from_header"
                  /\ trace[x + 1].addr = trace[x].addr

KnownSignatures == {XSDT_SIGNATURE, RSDT_SIGNATURE, APIC_SIGNATURE, FACP_SIGNATURE}

\* C14: a table with an unknown signature does not abort the walk, so it
\* never blocks its siblings: the walk of an entry table whose three entries
\* point at tables signed "APIC", "FACP" and "XYZZ" meets no abort, visits
\* the three in order and returns.
C14_UnknownTableIsSkipped ==
    \A x \in 1..Len(trace) :
        IsCall(x, "read_acpi_table") =>
            /\ (from_utf8_ok(SignatureAt(x)) /\ SignatureAt(x) \notin KnownSignatures) =>
                   ~AbortedAt(x)
            /\ (SignatureAt(x) = XSDT_SIGNATURE
                  /\ img.tables[trace[x].addr].entries = <<2300, 2200, 2400>>) =>
                   /\ aborted => Returned(x)
                   /\ Returned(x) => Len(Children(x)) = 3

\* the index of the first directory entry that carries the ACPI 2.0 GUID, 0
\* when none does
FirstAcpiEntry ==
    LET hits == {i \in 1..Len(img.config) :
                    img.config[i].vendor_guid = EFI_ACPI_20_TABLE_GUID}
    IN  IF hits = {} THEN 0 ELSE CHOOSE i \in hits : \A j \in hits : i <= j

\* the root pointers read_config_table has handed to read_rsdp so far
RootPointersUsed ==
    SelectSeq(trace, LAMBDA e : e.ev = "call" /\ e.fn = "read_rsdp" /\ e.depth = 2)

\* C18: the scan of the configuration-table directory uses the vendor_table
\* of the first entry whose vendor_guid is the ACPI 2.0 GUID, and of that
\* entry only: no later entry with the same GUID is used, and when no entry
\* matches nothing is walked.
C18_FirstMatchingEntryOnly ==
    last.op = "read_config_table" =>
        /\ Len(RootPointersUsed) <= 1
        /\ \A i \in 1..Len(RootPointersUsed) :
              /\ FirstAcpiEntry # 0
              /\ RootPointersUsed[i].addr = img.config[FirstAcpiEntry].vendor_table
        /\ FirstAcpiEntry = 0 => \A z \in 1..Len(trace) : trace[z].ev # "call"
        /\ (FirstAcpiEntry # 0 /\ \E z \in 1..Len(trace) :
                                     trace[z].ev = "ret" /\ trace[z].fn = "read_config_table") =>
               Len(RootPointersUsed) = 1

\* the orders in which n descriptors can be put
Orders(n) == {f \in [1..n -> 1..n] : \A i, j \in 1..n : f[i] = f[j] => i = j}

RECURSIVE Pick(_, _, _)
\* the descriptors of pool at the positions of A from position i on, in order
Pick(pool, A, i) ==
    IF i > Len(pool) THEN <<>>
    ELSE (IF i \in A THEN <<pool[i]>> ELSE <<>>) \o Pick(pool, A, i + 1)

\* C20: the total of free_mem_after_exit_bs does not depend on the order of
\* the descriptors and is additive: every permutation of the snapshot gives
\* the total the call returned, and for every split of the snapshot into two
\* parts the totals of the parts add up to it.
C20_OrderIndependentAndAdditive ==
    last.op = "free_mem_after_exit_bs" =>
        LET n == Len(memory_pool)
        IN  /\ \A f \in Orders(n) :
                  free_mem_after_exit_bs([i \in 1..n |-> memory_pool[f[i]]]) = last.ret
            /\ \A A \in SUBSET (1..n) :
                  free_mem_after_exit_bs(Pick(memory_pool, A, 1))
                    + free_mem_after_exit_bs(Pick(memory_pool, (1..n) \ A, 1)) = last.ret

\* a total taken over three descriptors where one that does not count comes
\* before one that does
C20_Witness ==
    /\ last.op = "free_mem_after_exit_bs"
    /\ Len(memory_pool) = 3
    /\ last.ret > 0
    /\ \E i, j \in 1..3 :
          /\ i < j
          /\ memory_pool[i].mem_type \notin ReclaimableKinds
          /\ memory_pool[j].mem_type \in ReclaimableKinds
          /\ memory_pool[j].number_pages > 0

(***************************************************************************)
(* The pool capacity, checked under SpecPool.                              *)
(***************************************************************************)
\* a successful acquisition whose map holds more descriptors than the pool
OverCapacity ==
    /\ AcquireDone
    /\ last.fw[1].status = EFI_SUCCESS
    /\ last.fw[1].descriptor_size > 0
    /\ last.fw[1].size_out \div last.fw[1].descriptor_size > MAX_MEMORY_MAP_ENTRIES

\* the pool holds the first MAX_MEMORY_MAP_ENTRIES descriptors of the map
HoldsFirstThousand ==
    /\ Len(memory_pool) = MAX_MEMORY_MAP_ENTRIES
    /\ \A i \in 1..MAX_MEMORY_MAP_ENTRIES :
          memory_pool[i] = ReadDescriptor(last.buf, (i - 1) * last.fw[1].descriptor_size)

PointerWidth(sig) == IF sig = RSDT_SIGNATURE THEN 4 ELSE 8

\* C12: for every entry table whose header has length = header_size + k *
\* pointer_width, iterating its entries yields exactly the k addresses of the
\* table, in file order, and then ends; a second iteration over a fresh view
\* of the same address and header yields the identical sequence.
C12_IterationYieldsEveryEntry ==
    last.op = "entries" =>
        LET t == img.tables[last.arg]
            w == PointerWidth(t.signature)
            k == (t.length - DESCRIPTION_HEADER_SIZE) \div w
        IN  (/\ t.signature \in {XSDT_SIGNATURE, RSDT_SIGNATURE}
             /\ k >= 0
             /\ t.length = DESCRIPTION_HEADER_SIZE + k * w)
            => /\ last.out[1] = Some([i \in 1..k |-> t.entries[i]])
               /\ last.out[2] = last.out[1]

\* the events of the kind ev in the trace of a run of the MADT parser
MadtEvents(ev) ==
    {i \in 1..Len(trace) : trace[i].fn = "MADT::from_header" /\ trace[i].ev = ev}

\* C15: the MADT parser starts its cursor at table_addr + 36 + 8 and, when its
\* loop ends, the cursor equals table_addr + table.length exactly, the declared
\* lengths of the records consumed summing to table.length - 44.
C15_CursorEndsAtTableEnd ==
    \A i \in 1..Len(trace) :
        LET e == trace[i]
        IN  /\ (e.fn = "MADT::from_header" /\ e.ev = "call")
                  => e.val.cursor = e.addr + 36 + 8
            /\ (e.fn = "MADT::from_header" /\ e.ev = "ret")
                  => /\ e.val.cursor = e.addr + img.tables[e.addr].length
                     /\ SumOver(2..(i - 1), [j \in 2..(i - 1) |-> trace[j].val.length])
                          = img.tables[e.addr].length - 44

\* the variant a ctrl_type byte selects
VariantOf(t) ==
    CASE t = 0 -> "ProcLocalApic"
      [] t = 1 -> "InOutApic"
      [] t = 2 -> "IntSrcOverride"
      [] t = 3 -> "NmiSrc"
      [] t = 4 -> "LocalApicNmi"
      [] OTHER -> "Unknown"

\* the cursor an event of the MADT parser was made at
CursorOf(e) == e.val.cursor

\* C16: each interrupt controller record is dispatched on its ctrl_type byte
\* (0 ProcLocalApic, 1 InOutApic, 2 IntSrcOverride, 3 NmiSrc without payload,
\* 4 LocalApicNmi, any other t Unknown(t)), the parser does not fail, and the
\* cursor advances by the declared length of the record whatever its type, so
\* the record that follows is the one that lies that many bytes further.
C16_DispatchAndAdvance ==
    /\ (last.op = "MADT::from_header") => ~aborted
    /\ \A i \in MadtEvents("rec") :
          LET e == trace[i]
              t == MemByte(img, CursorOf(e))
              len == MemByte(img, CursorOf(e) + 1)
          IN  /\ e.val.int_ctrl.kind = VariantOf(t)
              /\ (t = 3) => DOMAIN e.val.int_ctrl = {"kind"}
              /\ (t \notin 0..4) => e.val.int_ctrl.payload = t
              /\ (t \in {0, 1, 2, 4}) => e.val.int_ctrl.payload.header =
                                            [ctrl_type |-> t, length |-> len]
              /\ e.val.length = len
              /\ (i < Len(trace)) => CursorOf(trace[i + 1]) = CursorOf(e) + len
              /\ (i = Len(trace)) => Top.idx = CursorOf(e) + len

\* a parse that met a record of unknown type, then a LocalApicNmi, and returned
C16_Witness ==
    /\ MadtEvents("ret") # {}
    /\ \E i \in MadtEvents("rec") :
          /\ trace[i].val.int_ctrl.kind = "Unknown"
          /\ trace[i + 1].ev = "rec"
          /\ trace[i + 1].val.int_ctrl.kind = "LocalApicNmi"

\* the records a result of the MADT parser holds, in order
RecordsOf(madt) ==
    LET held == {i \in 1..Len(madt.int_ctrls) : madt.int_ctrls[i] # None}
    IN  [i \in 1..Cardinality(held) |-> madt.int_ctrls[i].value]

\* C17: the MADT parser returns the records it decoded as an ordered sequence
\* in table order: a block of one ProcLocalApic (length 8) followed by one
\* InOutApic (length 12) yields exactly those two records, in that order, in
\* the result.
C17_ResultHoldsRecords ==
    \A i \in MadtEvents("ret") :
        RecordsOf(trace[i].val) = [j \in 1..(i - 2) |-> trace[j + 1].val.int_ctrl]

(***************************************************************************)
(* The binary layout of a memory descriptor, checked under SpecMap.        *)
(***************************************************************************)
\* C21: a descriptor of one of the 15 defined kinds (raw values 0..14), laid
\* out by the firmware as {mem_type: u32, phys_start: u64, virt_start: u64,
\* number_pages: u64, attr_mask: u64} in at least the 40 bytes of the known
\* layout and decoded by the acquisition, comes back with the same kind, page
\* count and physical and virtual addresses.
C21_DescriptorRoundTrip ==
    (AcquireDone /\ last.fw[1].status = EFI_SUCCESS
       /\ last.fw[1].descriptor_size >= DESCRIPTOR_LAYOUT_SIZE) =>
        \A i \in 1..Len(last.script[1].descs) :
            LET d == last.script[1].descs[i]
            IN  d.mem_type \in 0..14 =>
                    /\ memory_pool[i].mem_type = d.mem_type
                    /\ memory_pool[i].number_pages = d.number_pages
                    /\ memory_pool[i].phys_start = d.phys_start
                    /\ memory_pool[i].virt_start = d.virt_start

\* a runtime region with a virtual address and a PersistentMemory region were
\* decoded from descriptors 48 bytes apart
C21_Witness ==
    /\ AcquireDone
    /\ last.fw[1].status = EFI_SUCCESS
    /\ last.fw[1].descriptor_size = 48
    /\ last.script[1].descs = MappedDescs
    /\ Len(memory_pool) >= 2
    /\ memory_pool[1].virt_start = 12288
    /\ memory_pool[2].mem_type = PersistentMemory

\* the firmware calls of the latest acquisition that returned SUCCESS
Succeeded == {i \in 1..Len(last.fw) : last.fw[i].status = EFI_SUCCESS}

\* C22: an acquisition that returns after a memory-map call succeeded returns
\* the map key the firmware wrote on that call, unchanged; the call that
\* succeeded is the last one made, so after a retry it is the retry's key.
C22_ReturnsFirmwareKey ==
    (AcquireDone /\ ~aborted) =>
        /\ Succeeded = {Len(last.fw)}
        /\ last.ret = last.fw[Len(last.fw)].map_key
        /\ last.ret = last.script[Len(last.fw)].map_key

\* an acquisition returned the key 42 of a map of two descriptors
C22_Witness ==
    /\ AcquireDone
    /\ ~aborted
    /\ last.script[1].descs = ScenarioDescs
    /\ last.script[1].map_key = 42
    /\ last.ret = 42

(***************************************************************************)
(* Further properties of the table walk, checked under SpecAcpi.           *)
(***************************************************************************)
\* the position of the call that begins the i-th child of the activation at x
ChildAt(x, i) ==
    CHOOSE y \in (x + 1)..Len(trace) :
        /\ trace[y].ev = "call"
        /\ trace[y].depth = trace[x].depth + 1
        /\ y < EndOf(x)
        /\ Cardinality({z \in (x + 1)..y : trace[z].ev = "call"
                                           /\ trace[z].depth = trace[x].depth + 1}) = i

\* C23: after the signature check read_rsdp walks the table at xsdt_addr and
\* then the table at rsdt_addr: both walks are made, the 64-bit one first,
\* the 32-bit one only after the 64-bit one has finished, and read_rsdp then
\* returns the root pointer.  The run never ends with one of the two walks
\* not made or the root pointer not returned.
C23_BothRootTablesWalked ==
    \A x \in 1..Len(trace) :
        (/\ IsCall(x, "read_rsdp")
         /\ RsdpAt(img, trace[x].addr).signature = RSD_PTR_SIGNATURE
         /\ from_utf8_ok(RsdpAt(img, trace[x].addr).oemid)) =>
            LET rsdp == RsdpAt(img, trace[x].addr)
                c == Children(x)
            IN  /\ Len(c) <= 2
                /\ Len(c) >= 1 => (c[1].fn = "read_acpi_table" /\ c[1].addr = rsdp.xsdt_addr)
                /\ Len(c) = 2 =>
                      /\ c[2].fn = "read_acpi_table" /\ c[2].addr = rsdp.rsdt_addr
                      /\ EndOf(ChildAt(x, 1)) < ChildAt(x, 2)
                /\ Returned(x) => (Len(c) = 2 /\ trace[EndOf(x)].val = rsdp)
                /\ aborted => Returned(x)

\* C24: read_acpi_table on a table whose signature is none of "XSDT", "RSDT",
\* "APIC", "FACP" is fatal: the run aborts there and nothing happens after,
\* so no sibling that follows the table in the enclosing entry table is
\* walked, and the table at rsdt_addr is not walked when the abort happened
\* in the walk of xsdt_addr.
C24_UnknownTableIsFatal ==
    \A x \in 1..Len(trace) :
        (IsCall(x, "read_acpi_table") /\ SignatureAt(x) \notin KnownSignatures) =>
            /\ aborted
            /\ Len(trace) = x + 1
            /\ trace[x + 1].ev = "abort"
            /\ trace[x + 1].depth = trace[x].depth
            /\ stack # <<>>

\* the walk of xsdt_addr aborted at "XYZZ", the first entry of the root table,
\* with a "FACP" sibling after it and the table at rsdt_addr still to walk
C24_Witness ==
    /\ aborted
    /\ Len(trace) >= 4
    /\ trace[Len(trace)].ev = "abort"
    /\ trace[Len(trace)].addr = 2400
    /\ img.tables[2000].entries = <<2400, 2200>>
    /\ \E x \in 1..Len(trace) : IsCall(x, "read_rsdp")
    /\ \A x \in 1..Len(trace) : trace[x].addr # 2200

\* the activation that made the call at x, 0 when there is none in the trace
ParentOf(x) ==
    LET P == {y \in 1..(x - 1) : trace[y].ev = "call" /\ trace[y].depth = trace[x].depth - 1
                                 /\ EndOf(y) > x}
    IN  IF P = {} THEN 0 ELSE CHOOSE y \in P : \A z \in P : z <= y

\* C25: read_acpi_table on a table signed "FACP" reads the header only and
\* returns normally: its return follows its call at once, the run is not
\* aborted by it, and when the caller is the iteration of an entry table the
\* next thing that happens is the walk of the next entry, or the return of
\* the iteration after the last entry.
C25_FacpReturnsAtOnce ==
    \A x \in 1..Len(trace) :
        (IsCall(x, "read_acpi_table") /\ SignatureAt(x) = FACP_SIGNATURE) =>
            /\ Len(trace) >= x + 1
            /\ trace[x + 1].ev = "ret"
            /\ trace[x + 1].addr = trace[x].addr
            /\ trace[x + 1].depth = trace[x].depth
            /\ Len(trace) = x + 1 => ~aborted
            /\ LET y == ParentOf(x)
               IN  (y # 0 /\ trace[y].fn = "read_acpi_table" /\ Len(trace) >= x + 2) =>
                      LET table == img.tables[trace[y].addr]
                          i == Len(SelectSeq(SubSeq(trace, y + 1, x),
                                             LAMBDA e : e.ev = "call"
                                                        /\ e.depth = trace[x].depth))
                      IN  IF i < (table.length - DESCRIPTION_HEADER_SIZE) \div 8
                          THEN /\ trace[x + 2].ev = "call"
                               /\ trace[x + 2].depth = trace[x].depth
                               /\ trace[x + 2].addr = table.entries[i + 1]
                          ELSE /\ trace[x + 2].ev = "ret"
                               /\ trace[x + 2].addr = trace[y].addr
                               /\ trace[x + 2].depth = trace[y].depth

\* a "FACP" table was walked as the first of two entries of a nested table and
\* the walk of the second entry followed
C25_Witness ==
    \E x \in 1..Len(trace) :
        /\ IsCall(x, "read_acpi_table")
        /\ trace[x].addr = 2200
        /\ ParentOf(x) # 0
        /\ trace[ParentOf(x)].addr = 2500
        /\ Len(trace) >= x + 2
        /\ trace[x + 2].ev = "call"
        /\ trace[x + 2].addr = 2700

(***************************************************************************)
(* Termination of the table walk, checked under SpecAcpiFair.              *)
(***************************************************************************)
RECURSIVE WalkIsFinite(_, _, _)
\* the tables reachable from a are signed "XSDT" or "FACP" and no entry table
\* among them is reachable from itself (seen: the entry tables on the path)
WalkIsFinite(im, a, seen) ==
    LET h == HeaderAt(im, a)
    IN  CASE h.signature = FACP_SIGNATURE -> TRUE
          [] h.signature = XSDT_SIGNATURE ->
                /\ a \notin seen
                /\ \A i \in 1..((h.length - DESCRIPTION_HEADER_SIZE) \div 8) :
                      WalkIsFinite(im, EntryAt(im, a, i - 1), seen \cup {a})
          [] OTHER -> FALSE

RECURSIVE OnlyRecognised(_, _, _)
\* the tables reachable from a are signed "XSDT" or "FACP"
OnlyRecognised(im, a, seen) ==
    LET h == HeaderAt(im, a)
    IN  CASE h.signature = FACP_SIGNATURE -> TRUE
          [] h.signature = XSDT_SIGNATURE ->
                \/ a \in seen
                \/ \A i \in 1..((h.length - DESCRIPTION_HEADER_SIZE) \div 8) :
                      OnlyRecognised(im, EntryAt(im, a, i - 1), seen \cup {a})
          [] OTHER -> FALSE

RECURSIVE Visits(_, _)
\* on a finite graph: one visit of a, and the visits of each of its entries,
\* an entry listed twice or reachable along two paths counting twice
Visits(im, a) ==
    LET h == HeaderAt(im, a)
        k == (h.length - DESCRIPTION_HEADER_SIZE) \div 8
    IN  IF h.signature = XSDT_SIGNATURE
        THEN 1 + SumOver(1..k, [i \in 1..k |-> Visits(im, EntryAt(im, a, i - 1))])
        ELSE 1

\* the walks begun so far inside the activation begun at x, itself included
VisitsWithin(x) ==
    Cardinality({y \in x..Len(trace) : y < EndOf(x) /\ IsCall(y, "read_acpi_table")})

\* every root pointer of the directory is valid and leads to finite graphs only
FiniteImage ==
    \A i \in 1..Len(img.config) :
        img.config[i].vendor_guid = EFI_ACPI_20_TABLE_GUID =>
            LET rsdp == RsdpAt(img, img.config[i].vendor_table)
            IN  /\ rsdp.signature = RSD_PTR_SIGNATURE
                /\ from_utf8_ok(rsdp.oemid)
                /\ WalkIsFinite(img, rsdp.xsdt_addr, {})
                /\ WalkIsFinite(img, rsdp.rsdt_addr, {})

\* what the walk keeps to in every state
C26_VisitsAndCycles ==
    \A x \in 1..Len(trace) :
        IsCall(x, "read_acpi_table") =>
            /\ WalkIsFinite(img, trace[x].addr, {}) =>
                  /\ VisitsWithin(x) <= Visits(img, trace[x].addr)
                  /\ Returned(x) => VisitsWithin(x) = Visits(img, trace[x].addr)
                  /\ ~AbortedAt(x)
            /\ (OnlyRecognised(img, trace[x].addr, {})
                  /\ ~WalkIsFinite(img, trace[x].addr, {})) =>
                  /\ ~Returned(x)
                  /\ ~aborted
                  /\ stack # <<>>
                  /\ Len(stack) >= trace[x].depth

\* C26: the walk keeps no visited set and no depth cap.  A table is walked
\* once for every entry that references it: on a finite acyclic graph of
\* tables signed "XSDT" or "FACP" the walk of a table makes exactly as many
\* visits as the entry counts add up to, and a scan over such graphs runs to
\* its end; on a graph of such tables where an entry table is reachable from
\* itself the walk never returns and never aborts.
C26_TerminatesUnlessCyclic ==
    /\ []C26_VisitsAndCycles
    /\ (stack # <<>> /\ FiniteImage) ~> (stack = <<>> /\ ~aborted)

\* a walk of the table that lists itself has gone as deep as the trace is long
C26_Witness ==
    /\ Len(trace) = MaxTrace
    /\ trace[MaxTrace].ev = "call"
    /\ trace[MaxTrace].addr = 2600
    /\ trace[MaxTrace - 1].addr = 2600
    /\ trace[MaxTrace].depth = trace[MaxTrace - 1].depth + 1
    /\ Len(stack) >= MaxTrace - 4

(***************************************************************************)
(* What each operation leaves alone, checked under Spec.                   *)
(***************************************************************************)
\* C27: once initialize_system_table has installed a pointer the handle holds
\* that pointer in every later state: get_memory_map, free_mem_after_exit_bs,
\* read_config_table, the table walk, uefi_print and a further
\* initialize_system_table never write it; and the snapshot is written by
\* get_memory_map only.
C27_WritersOfSharedState ==
    [][/\ EFI_SYSTEM_TABLE # NULL => EFI_SYSTEM_TABLE' = EFI_SYSTEM_TABLE
       /\ EFI_SYSTEM_TABLE' # EFI_SYSTEM_TABLE => last'.op = "initialize_system_table"
       /\ memory_pool' # memory_pool =>
             (last'.op = "get_memory_map" /\ last' # last /\ stack = <<>>)]_vars

\* with a pointer installed and a snapshot acquired, a table walk has run
C27_Witness ==
    /\ EFI_SYSTEM_TABLE # NULL
    /\ memory_pool # <<>>
    /\ last.op = "read_config_table"
    /\ last.preHandle = EFI_SYSTEM_TABLE
    /\ last.prePool = memory_pool
    /\ \E x \in 1..Len(trace) : IsCall(x, "read_acpi_table") /\ trace[x].addr = 2200

(***************************************************************************)
(* Termination of the MADT parser, checked under SpecTablesFair.           *)
(***************************************************************************)
\* C28: MADT::from_header terminates for every table of finite length,
\* whatever length each structure declares, a length of 0 included: a parse
\* that has begun comes to its return.
C28_MadtParsingTerminates ==
    (stack # <<>> /\ Top.fn = "MADT::from_header") ~> (stack = <<>>)

(***************************************************************************)
(* Reads against the declared length of a table, checked under SpecTables. *)
(***************************************************************************)
\* C29: while a table at addr with declared length L is processed, every byte
\* read for its entry addresses or its interrupt controller structures lies
\* in [addr, addr + L): no entry is read past the table's end, also when L is
\* below the 36 bytes of the header, and no structure's fixed layout is read
\* past the table's end.
C29_ReadsStayInsideTable ==
    /\ last.op = "entries" =>
          LET t == img.tables[last.arg]
              w == PointerWidth(t.signature)
          IN  \A i \in 1..Len(last.reads) :
                  /\ last.reads[i] >= last.arg
                  /\ last.reads[i] + w <= last.arg + t.length
    /\ \A i \in MadtEvents("rec") :
          LET e == trace[i]
          IN  /\ e.val.cursor >= e.addr
              /\ e.val.cursor + e.val.extent <= e.addr + img.tables[e.addr].length

(***************************************************************************)
(* Reads of the decode loop against the size the firmware reported,        *)
(* checked under SpecMap.                                                   *)
(***************************************************************************)
\* C30: after a memory-map call returned SUCCESS, every descriptor the
\* acquisition decodes is read entirely from bytes [0, memory_map_size) of the
\* buffer, and the decode loop finishes without aborting, whatever pair of
\* memory_map_size and descriptor_size the call returned: also when the size
\* is not a multiple of descriptor_size, when descriptor_size is below the 40
\* bytes of the known layout, and when descriptor_size is 0.
C30_DecodeStaysInsideMap ==
    (AcquireDone /\ Succeeded # {}) =>
        /\ ~aborted
        /\ \A i \in 1..Len(last.reads) :
               last.reads[i] + DESCRIPTOR_LAYOUT_SIZE <= last.fw[Len(last.fw)].size_out

====
